---- MODULE Spec2Model ----
(***************************************************************************)
(* Model of backend/app.py of Location-Tracker: the in-memory session      *)
(* store, the two process-wide coordinate slots and the HTTP handlers that *)
(* read and write them.  Every handler is one atomic action; the wall      *)
(* clock (time.time()) is the variable now, advanced by Tick.              *)
(***************************************************************************)
EXTENDS Integers, Sequences, FiniteSets, TLC

VARIABLES
    sessions,            \* app.py:29   {session_id: {"username", "expires_at"}}
    destination_coords,  \* app.py:36   {"lat": .., "lng": ..}
    current_coords,      \* app.py:37   {"lat": .., "lng": ..}
    twilio_client,       \* app.py:31-34  TRUE iff a Client was configured
    now,                 \* the value time.time() returns
    ticks,               \* how many times the clock has been advanced
    resp,                \* the last request together with its response
    threads              \* the requests in flight on the server's worker threads

vars == <<sessions, destination_coords, current_coords, twilio_client, now, ticks,
          resp, threads>>

----------------------------------------------------------------------------
(* Program constants *)

DEFAULT_TIMEOUT == 300
SPECIAL_TIMEOUT == 7200
ARRIVAL_RADIUS == 2000
MIN_USERNAME_LEN == 5

(* Bounds of the model *)

MaxTicks == 2

----------------------------------------------------------------------------
(* Values *)

\* A JSON value found in a coordinate slot: None, a number the geodesic
\* routine accepts, or a value it rejects (a non-numeric string, a latitude
\* outside [-90, 90], ...).
None == [k |-> "none", v |-> 0]
Num(x) == [k |-> "num", v |-> x]
Invalid == [k |-> "invalid", v |-> 0]

\* Latitudes are metres of arc along a meridian from a reference point,
\* longitudes are whole degrees at the equator.
LatVals == {0, 1999, 2000, 2001}
LngVals == {0, 1}

BodyLat == {None, Invalid} \cup {Num(x) : x \in LatVals}
BodyLng == {None} \cup {Num(x) : x \in LngVals}

\* What the place-details lookup can answer: a failure before
\* res['result']['geometry']['location'] is reached, or that location
\* object, which may lack "lat" or "lng".
LookupFailure == [k |-> "failure"]
Location(S, la, ln) == [k |-> "location", has |-> S, lat |-> la, lng |-> ln]
DestLat == {0, 2001}
Lookups ==
    {LookupFailure}
    \cup {Location({"lat", "lng"}, la, 0) : la \in DestLat}
    \cup {Location({"lat"}, 0, 0), Location({"lng"}, 0, 0), Location({}, 0, 0)}

\* Session cookies: NoCookie is a request without the session_id cookie.
Tokens == {"t1", "t2"}
NoCookie == "none"
Cookies == Tokens \cup {NoCookie}

\* Usernames and passwords are sequences of characters.
jollypolly == <<"j", "o", "l", "l", "y", "p", "o", "l", "l", "y">>
alice == <<"a", "l", "i", "c", "e">>
abcd == <<"a", "b", "c", "d">>
Usernames == {abcd, alice, jollypolly}

\* Faulty variant: the password compared with the username as typed.
Reverse_identity(s) == s

\* data.username[::-1]
RECURSIVE Reverse(_)
Reverse(s) == IF s = <<>> THEN <<>> ELSE Append(Reverse(Tail(s)), Head(s))

Passwords == {Reverse(u) : u \in Usernames} \cup {alice}

ClockSteps == {1, DEFAULT_TIMEOUT, SPECIAL_TIMEOUT}

----------------------------------------------------------------------------
(* Helper functions *)

Abs(x) == IF x < 0 THEN -x ELSE x

\* geopy.distance.geodesic(p, q).meters on the points of the model: along a
\* meridian the distance is the difference of the arcs; a degree of
\* longitude apart adds more than 111 km.
geodesic(lat1, lng1, lat2, lng2) ==
    Abs(lat1 - lat2) + 111319 * Abs(lng1 - lng2)

HasNone(coord) == coord.lat = None \/ coord.lng = None
HasInvalid(coord) == coord.lat = Invalid \/ coord.lng = Invalid

\* Faulty variant: only the first coordinate is tested for None, and an
\* unset slot is read as 0.
compute_distance_unguarded(coord1, coord2) ==
    IF HasNone(coord1) THEN "false"
    ELSE IF HasInvalid(coord1) \/ HasInvalid(coord2) THEN "raise"
    ELSE IF geodesic(coord1.lat.v, coord1.lng.v, coord2.lat.v, coord2.lng.v)
                <= ARRIVAL_RADIUS
         THEN "true"
         ELSE "false"

\* Faulty variant: the radius itself is outside the fence.
compute_distance_exclusive(coord1, coord2) ==
    IF HasNone(coord1) \/ HasNone(coord2) THEN "false"
    ELSE IF HasInvalid(coord1) \/ HasInvalid(coord2) THEN "raise"
    ELSE IF geodesic(coord1.lat.v, coord1.lng.v, coord2.lat.v, coord2.lng.v)
                < ARRIVAL_RADIUS
         THEN "true"
         ELSE "false"

\* compute_distance: "false", "true", or "raise" when geodesic rejects a value.
compute_distance(coord1, coord2) ==
    IF HasNone(coord1) \/ HasNone(coord2) THEN "false"
    ELSE IF HasInvalid(coord1) \/ HasInvalid(coord2) THEN "raise"
    ELSE IF geodesic(coord1.lat.v, coord1.lng.v, coord2.lat.v, coord2.lng.v)
                <= ARRIVAL_RADIUS
         THEN "true"
         ELSE "false"

\* del sessions[session_id]
Delete(store, sid) == [t \in DOMAIN store \ {sid} |-> store[t]]

\* sessions[session_id] = entry
Store(store, sid, entry) ==
    [t \in DOMAIN store \cup {sid} |-> IF t = sid THEN entry ELSE store[t]]

\* verify_session: the status it answers (200 stands for returning the
\* username) and the store it leaves.
verify_known(sid) == sid # NoCookie /\ sid \in DOMAIN sessions
\* Faulty variant: the expiry test left out.
verify_expired_never(sid) == FALSE
verify_expired(sid) == now > sessions[sid].expires_at
verify_status(sid) ==
    IF ~verify_known(sid) THEN 401
    ELSE IF verify_expired(sid) THEN 401
    ELSE 200
verify_detail(sid) ==
    IF ~verify_known(sid) THEN "Session expired or invalid"
    ELSE IF verify_expired(sid) THEN "Session expired"
    ELSE "ok"
\* Faulty variant: every expired entry swept out on any validation.
verify_sessions_sweep(sid) ==
    LET kept == {t \in DOMAIN sessions : ~(now > sessions[t].expires_at)}
    IN  [t \in kept |-> sessions[t]]

\* Faulty variant: an expired entry is rejected but left in the store.
verify_sessions_keep(sid) == sessions
verify_sessions(sid) ==
    IF verify_known(sid) /\ verify_expired(sid) THEN Delete(sessions, sid)
    ELSE sessions

\* get_session_info: its own membership test and expiry test.
info_known(sid) == sid # NoCookie /\ sid \in DOMAIN sessions
info_remaining(sid) == sessions[sid].expires_at - now
\* Faulty variant: a session with nothing left still answered.
info_expired_late(sid) == info_remaining(sid) < 0
info_expired(sid) == info_remaining(sid) <= 0
info_status(sid) ==
    IF ~info_known(sid) THEN 401
    ELSE IF info_expired(sid) THEN 401
    ELSE 200
info_sessions(sid) ==
    IF info_known(sid) /\ info_expired(sid) THEN Delete(sessions, sid)
    ELSE sessions

\* Faulty variant: the extended session of the reserved username forgotten.
timeout_for_default(username) == DEFAULT_TIMEOUT
timeout_for(username) ==
    IF username = jollypolly THEN SPECIAL_TIMEOUT ELSE DEFAULT_TIMEOUT

\* Worker threads of the server: a sync endpoint runs on a pool thread, so
\* two requests interleave statement by statement.
Threads == {"w1", "w2"}

\* A worker with no request: pc is the statement it is about to execute,
\* session_data the local variable of that name.
Idle ==
    [pc |-> "idle", op |-> "none", cookie |-> NoCookie,
     latitude |-> None, longitude |-> None,
     session_data |-> [username |-> <<>>, expires_at |-> 0],
     status |-> 0, body |-> "none", dispatched |-> 0]

----------------------------------------------------------------------------
Init ==
    /\ sessions = <<>>
    /\ destination_coords = [lat |-> None, lng |-> None]
    /\ current_coords = [lat |-> None, lng |-> None]
    /\ twilio_client \in BOOLEAN
    /\ now = 0
    /\ ticks = 0
    /\ resp = [op |-> "none", status |-> 0]
    /\ threads = [t \in Threads |-> Idle]

\* POST /login
login(username, password, session_id) ==
    /\ IF Len(username) < MIN_USERNAME_LEN
       THEN /\ resp' = [op |-> "login", status |-> 400, username |-> username,
                        password |-> password, cookie |-> NoCookie]
            /\ UNCHANGED sessions
       ELSE IF password # Reverse(username)
       THEN /\ resp' = [op |-> "login", status |-> 401, username |-> username,
                        password |-> password, cookie |-> NoCookie]
            /\ UNCHANGED sessions
       ELSE /\ sessions' = Store(sessions, session_id,
                                 [username |-> username,
                                  expires_at |-> now + timeout_for(username)])
            /\ resp' = [op |-> "login", status |-> 200, username |-> username,
                        password |-> password, cookie |-> session_id]
    /\ UNCHANGED <<destination_coords, current_coords, twilio_client, now, ticks, threads>>

\* make_twilio_call: what becomes of the call.  call_ok is whether
\* twilio_client.calls.create returns rather than raises.
make_twilio_call(call_ok) ==
    IF ~twilio_client THEN "no_client"
    ELSE IF call_ok THEN "placed"
    ELSE "failed"

\* GET /session_info
get_session_info(session_id) ==
    /\ sessions' = info_sessions(session_id)
    /\ resp' = IF info_status(session_id) = 401
               THEN [op |-> "session_info", status |-> 401, cookie |-> session_id]
               ELSE [op |-> "session_info", status |-> 200, cookie |-> session_id,
                     username |-> sessions[session_id].username,
                     remaining_seconds |-> info_remaining(session_id)]
    /\ UNCHANGED <<destination_coords, current_coords, twilio_client, now, ticks, threads>>

\* Faulty variant: the entry deleted without the membership test, so that
\* an absent token ends the request in an unhandled KeyError.
logout_unguarded(session_id) ==
    /\ sessions' = IF session_id \in DOMAIN sessions
                   THEN Delete(sessions, session_id)
                   ELSE sessions
    /\ resp' = [op |-> "logout",
                status |-> IF session_id \in DOMAIN sessions THEN 200 ELSE 500,
                cookie |-> session_id]
    /\ UNCHANGED <<destination_coords, current_coords, twilio_client, now, ticks, threads>>

\* POST /logout
logout(session_id) ==
    /\ sessions' = IF session_id \in DOMAIN sessions
                   THEN Delete(sessions, session_id)
                   ELSE sessions
    /\ resp' = [op |-> "logout", status |-> 200, cookie |-> session_id]
    /\ UNCHANGED <<destination_coords, current_coords, twilio_client, now, ticks, threads>>

\* Faulty variant: the destination written as soon as "lat" is found.
lookup_ok_partial(lookup) ==
    lookup.k = "location" /\ "lat" \in lookup.has

\* POST /set_destination.  lookup is the answer of the place-details call.
lookup_ok(lookup) ==
    lookup.k = "location" /\ "lat" \in lookup.has /\ "lng" \in lookup.has

set_destination(session_id, lookup) ==
    /\ sessions' = verify_sessions(session_id)
    /\ IF verify_status(session_id) = 401
       THEN /\ resp' = [op |-> "set_destination", status |-> 401,
                        cookie |-> session_id,
                        detail |-> verify_detail(session_id)]
            /\ UNCHANGED destination_coords
       ELSE IF lookup_ok(lookup)
       THEN /\ destination_coords' = [lat |-> Num(lookup.lat), lng |-> Num(lookup.lng)]
            /\ resp' = [op |-> "set_destination", status |-> 200,
                        cookie |-> session_id, lookup |-> lookup,
                        destination_coordinates |-> destination_coords']
       ELSE /\ resp' = [op |-> "set_destination", status |-> 500,
                        cookie |-> session_id, lookup |-> lookup]
            /\ UNCHANGED destination_coords
    /\ UNCHANGED <<current_coords, twilio_client, now, ticks, threads>>

\* POST /autocomplete_location.  lookup_answers is whether the autocomplete
\* call returns a JSON payload rather than raises.
autocomplete_location(session_id, lookup_answers) ==
    /\ sessions' = verify_sessions(session_id)
    /\ resp' = [op |-> "autocomplete_location",
                status |-> IF verify_status(session_id) = 401 THEN 401
                           ELSE IF lookup_answers THEN 200 ELSE 500,
                cookie |-> session_id,
                detail |-> verify_detail(session_id)]
    /\ UNCHANGED <<destination_coords, current_coords, twilio_client, now, ticks, threads>>

\* Faulty variant: the distance taken from the position held before the
\* overwrite.
track_location_stale(session_id, latitude, longitude, call_ok) ==
    /\ sessions' = verify_sessions(session_id)
    /\ IF verify_status(session_id) = 401
       THEN /\ resp' = [op |-> "track_location", status |-> 401,
                        cookie |-> session_id, body |-> "error",
                        dispatched |-> 0, call |-> "none",
                        detail |-> verify_detail(session_id)]
            /\ UNCHANGED current_coords
       ELSE /\ current_coords' = [lat |-> latitude, lng |-> longitude]
            /\ LET arrived == compute_distance(current_coords, destination_coords)
               IN  resp' =
                     IF arrived = "true"
                     THEN [op |-> "track_location", status |-> 200,
                           cookie |-> session_id, body |-> "alert",
                           dispatched |-> 1, call |-> make_twilio_call(call_ok),
                           latitude |-> latitude, longitude |-> longitude]
                     ELSE IF arrived = "false"
                     THEN [op |-> "track_location", status |-> 200,
                           cookie |-> session_id, body |-> "success",
                           dispatched |-> 0, call |-> "none",
                           latitude |-> latitude, longitude |-> longitude]
                     ELSE [op |-> "track_location", status |-> 500,
                           cookie |-> session_id, body |-> "error",
                           dispatched |-> 0, call |-> "none",
                           latitude |-> latitude, longitude |-> longitude]
    /\ UNCHANGED <<destination_coords, twilio_client, now, ticks, threads>>

\* Faulty variant: make_twilio_call without its try/except, so that a failed
\* call ends the request in an unhandled exception.
track_location_surfacing(session_id, latitude, longitude, call_ok) ==
    /\ sessions' = verify_sessions(session_id)
    /\ IF verify_status(session_id) = 401
       THEN /\ resp' = [op |-> "track_location", status |-> 401,
                        cookie |-> session_id, body |-> "error",
                        dispatched |-> 0, call |-> "none",
                        detail |-> verify_detail(session_id)]
            /\ UNCHANGED current_coords
       ELSE /\ current_coords' = [lat |-> latitude, lng |-> longitude]
            /\ LET arrived == compute_distance(current_coords', destination_coords)
               IN  resp' =
                     IF arrived = "true" /\ make_twilio_call(call_ok) # "failed"
                     THEN [op |-> "track_location", status |-> 200,
                           cookie |-> session_id, body |-> "alert",
                           dispatched |-> 1, call |-> make_twilio_call(call_ok),
                           latitude |-> latitude, longitude |-> longitude]
                     ELSE IF arrived = "false"
                     THEN [op |-> "track_location", status |-> 200,
                           cookie |-> session_id, body |-> "success",
                           dispatched |-> 0, call |-> "none",
                           latitude |-> latitude, longitude |-> longitude]
                     ELSE [op |-> "track_location", status |-> 500,
                           cookie |-> session_id, body |-> "error",
                           dispatched |-> IF arrived = "true" THEN 1 ELSE 0,
                           call |-> IF arrived = "true" THEN "failed" ELSE "none",
                           latitude |-> latitude, longitude |-> longitude]
    /\ UNCHANGED <<destination_coords, twilio_client, now, ticks, threads>>

\* POST /track_location
track_location(session_id, latitude, longitude, call_ok) ==
    /\ sessions' = verify_sessions(session_id)
    /\ IF verify_status(session_id) = 401
       THEN /\ resp' = [op |-> "track_location", status |-> 401,
                        cookie |-> session_id, body |-> "error",
                        dispatched |-> 0, call |-> "none",
                        detail |-> verify_detail(session_id)]
            /\ UNCHANGED current_coords
       ELSE /\ current_coords' = [lat |-> latitude, lng |-> longitude]
            /\ LET arrived == compute_distance(current_coords', destination_coords)
               IN  resp' =
                     IF arrived = "true"
                     THEN [op |-> "track_location", status |-> 200,
                           cookie |-> session_id, body |-> "alert",
                           dispatched |-> 1, call |-> make_twilio_call(call_ok),
                           latitude |-> latitude, longitude |-> longitude]
                     ELSE IF arrived = "false"
                     THEN [op |-> "track_location", status |-> 200,
                           cookie |-> session_id, body |-> "success",
                           dispatched |-> 0, call |-> "none",
                           latitude |-> latitude, longitude |-> longitude]
                     ELSE [op |-> "track_location", status |-> 500,
                           cookie |-> session_id, body |-> "error",
                           dispatched |-> 0, call |-> "none",
                           latitude |-> latitude, longitude |-> longitude]
    /\ UNCHANGED <<destination_coords, twilio_client, now, ticks, threads>>

\* The clock advances.
Tick(d) ==
    /\ ticks < MaxTicks
    /\ ticks' = ticks + 1
    /\ now' = now + d
    /\ UNCHANGED <<sessions, destination_coords, current_coords, twilio_client, resp,
                 threads>>

----------------------------------------------------------------------------
\* Session lifecycle: every user, two tokens, the whole clock; positions
\* and destinations at the reference point only, the call client configured.
Next ==
    \/ \E u \in Usernames, p \in Passwords, t \in Tokens : login(u, p, t)
    \/ \E c \in Cookies : get_session_info(c)
    \/ \E c \in Cookies : logout(c)
    \/ \E c \in Cookies, l \in {LookupFailure, Location({"lat", "lng"}, 0, 0)} :
           set_destination(c, l)
    \/ \E c \in Cookies, a \in BOOLEAN : autocomplete_location(c, a)
    \/ \E c \in Cookies : track_location(c, Num(0), Num(0), TRUE)
    \/ \E d \in ClockSteps : Tick(d)

SessionInit == Init /\ twilio_client = TRUE

Spec == SessionInit /\ [][Next]_vars

\* Geofence: one user and one token, every position, destination and
\* lookup answer, and a clock that runs past the session's expiry.
GeoNext ==
    \/ login(alice, Reverse(alice), "t1")
    \/ \E c \in {"t1", NoCookie} : get_session_info(c)
    \/ logout("t1")
    \/ \E c \in {"t1", NoCookie}, l \in Lookups : set_destination(c, l)
    \/ \E a \in BOOLEAN : autocomplete_location("t1", a)
    \/ \E c \in {"t1", NoCookie}, la \in BodyLat, ln \in BodyLng, ok \in BOOLEAN :
           track_location(c, la, ln, ok)
    \/ Tick(DEFAULT_TIMEOUT + 1)

GeoSpec == Init /\ [][GeoNext]_vars

----------------------------------------------------------------------------
(* Concurrent requests: the same handlers, one statement per step *)

\* What a request in flight leaves alone besides the store.
shared == <<destination_coords, current_coords, twilio_client, now, ticks, resp>>

\* A request arrives and is handed to the idle worker t.
Start(t, op, session_id, latitude, longitude) ==
    /\ threads[t].pc = "idle"
    /\ threads' = [threads EXCEPT ![t] =
           [Idle EXCEPT !.op = op, !.cookie = session_id,
                        !.latitude = latitude, !.longitude = longitude,
                        !.pc = CASE op = "track_location" -> "v_check"
                                 [] op = "session_info"   -> "i_check"
                                 [] op = "logout"         -> "l_check"]]
    /\ UNCHANGED <<sessions, shared>>

\* verify_session: if not session_id or session_id not in sessions
v_check(t) ==
    /\ threads[t].pc = "v_check"
    /\ threads' = IF ~verify_known(threads[t].cookie)
                  THEN [threads EXCEPT ![t].pc = "done", ![t].status = 401]
                  ELSE [threads EXCEPT ![t].pc = "v_read"]
    /\ UNCHANGED <<sessions, shared>>

\* verify_session: session_data = sessions[session_id]
v_read(t) ==
    /\ threads[t].pc = "v_read"
    /\ threads' = IF threads[t].cookie \notin DOMAIN sessions
                  THEN [threads EXCEPT ![t].pc = "done", ![t].status = 500,
                                       ![t].body = "KeyError"]
                  ELSE [threads EXCEPT ![t].pc = "v_expiry",
                                       ![t].session_data = sessions[threads[t].cookie]]
    /\ UNCHANGED <<sessions, shared>>

\* verify_session: if time.time() > session_data["expires_at"]
v_expiry(t) ==
    /\ threads[t].pc = "v_expiry"
    /\ threads' = IF now > threads[t].session_data.expires_at
                  THEN [threads EXCEPT ![t].pc = "v_guard"]
                  ELSE [threads EXCEPT ![t].pc = "t_update"]
    /\ UNCHANGED <<sessions, shared>>

\* verify_session: if session_id in sessions
v_guard(t) ==
    /\ threads[t].pc = "v_guard"
    /\ threads' = IF threads[t].cookie \in DOMAIN sessions
                  THEN [threads EXCEPT ![t].pc = "v_del"]
                  ELSE [threads EXCEPT ![t].pc = "done", ![t].status = 401]
    /\ UNCHANGED <<sessions, shared>>

\* verify_session: del sessions[session_id], then the 401
v_del(t) ==
    /\ threads[t].pc = "v_del"
    /\ IF threads[t].cookie \in DOMAIN sessions
       THEN /\ sessions' = Delete(sessions, threads[t].cookie)
            /\ threads' = [threads EXCEPT ![t].pc = "done", ![t].status = 401]
       ELSE /\ threads' = [threads EXCEPT ![t].pc = "done", ![t].status = 500,
                                          ![t].body = "KeyError"]
            /\ UNCHANGED sessions
    /\ UNCHANGED shared

\* track_location: current_coords.update(...)
t_update(t) ==
    /\ threads[t].pc = "t_update"
    /\ current_coords' = [lat |-> threads[t].latitude, lng |-> threads[t].longitude]
    /\ threads' = [threads EXCEPT ![t].pc = "t_compute"]
    /\ UNCHANGED <<sessions, destination_coords, twilio_client, now, ticks, resp>>

\* track_location: if compute_distance(current_coords, destination_coords)
\* and the answer that follows.
t_compute(t) ==
    /\ threads[t].pc = "t_compute"
    /\ LET arrived == compute_distance(current_coords, destination_coords)
       IN  threads' =
             IF arrived = "true"
             THEN [threads EXCEPT ![t].pc = "done", ![t].status = 200,
                                  ![t].body = "alert", ![t].dispatched = 1]
             ELSE IF arrived = "false"
             THEN [threads EXCEPT ![t].pc = "done", ![t].status = 200,
                                  ![t].body = "success"]
             ELSE [threads EXCEPT ![t].pc = "done", ![t].status = 500,
                                  ![t].body = "ValueError"]
    /\ UNCHANGED <<sessions, shared>>

\* get_session_info: if not session_id or session_id not in sessions
i_check(t) ==
    /\ threads[t].pc = "i_check"
    /\ threads' = IF ~info_known(threads[t].cookie)
                  THEN [threads EXCEPT ![t].pc = "done", ![t].status = 401]
                  ELSE [threads EXCEPT ![t].pc = "i_read"]
    /\ UNCHANGED <<sessions, shared>>

\* get_session_info: session_data = sessions[session_id]
i_read(t) ==
    /\ threads[t].pc = "i_read"
    /\ threads' = IF threads[t].cookie \notin DOMAIN sessions
                  THEN [threads EXCEPT ![t].pc = "done", ![t].status = 500,
                                       ![t].body = "KeyError"]
                  ELSE [threads EXCEPT ![t].pc = "i_remaining",
                                       ![t].session_data = sessions[threads[t].cookie]]
    /\ UNCHANGED <<sessions, shared>>

\* get_session_info: remaining = ...; if remaining <= 0
i_remaining(t) ==
    /\ threads[t].pc = "i_remaining"
    /\ threads' = IF threads[t].session_data.expires_at - now <= 0
                  THEN [threads EXCEPT ![t].pc = "i_del"]
                  ELSE [threads EXCEPT ![t].pc = "done", ![t].status = 200]
    /\ UNCHANGED <<sessions, shared>>

\* get_session_info: del sessions[session_id], then the 401
i_del(t) ==
    /\ threads[t].pc = "i_del"
    /\ IF threads[t].cookie \in DOMAIN sessions
       THEN /\ sessions' = Delete(sessions, threads[t].cookie)
            /\ threads' = [threads EXCEPT ![t].pc = "done", ![t].status = 401]
       ELSE /\ threads' = [threads EXCEPT ![t].pc = "done", ![t].status = 500,
                                          ![t].body = "KeyError"]
            /\ UNCHANGED sessions
    /\ UNCHANGED shared

\* logout: if session_id in sessions
l_check(t) ==
    /\ threads[t].pc = "l_check"
    /\ threads' = IF threads[t].cookie \in DOMAIN sessions
                  THEN [threads EXCEPT ![t].pc = "l_del"]
                  ELSE [threads EXCEPT ![t].pc = "done", ![t].status = 200]
    /\ UNCHANGED <<sessions, shared>>

\* logout: del sessions[session_id], then the answer
l_del(t) ==
    /\ threads[t].pc = "l_del"
    /\ IF threads[t].cookie \in DOMAIN sessions
       THEN /\ sessions' = Delete(sessions, threads[t].cookie)
            /\ threads' = [threads EXCEPT ![t].pc = "done", ![t].status = 200]
       ELSE /\ threads' = [threads EXCEPT ![t].pc = "done", ![t].status = 500,
                                          ![t].body = "KeyError"]
            /\ UNCHANGED sessions
    /\ UNCHANGED shared

\* Two workers and one session: the login and the destination are set up by
\* whole requests before any worker starts, then the workers interleave
\* with each other and with the clock.
ConcNext ==
    \/ (\A t \in Threads : threads[t].pc = "idle")
         /\ login(alice, Reverse(alice), "t1")
    \/ (\A t \in Threads : threads[t].pc = "idle")
         /\ set_destination("t1", Location({"lat", "lng"}, 0, 0))
    \/ \E t \in Threads, op \in {"session_info", "logout"} :
           Start(t, op, "t1", None, None)
    \/ \E t \in Threads, la \in {Num(0), Num(2001)} :
           Start(t, "track_location", "t1", la, Num(0))
    \/ \E t \in Threads :
           \/ v_check(t) \/ v_read(t) \/ v_expiry(t) \/ v_guard(t) \/ v_del(t)
           \/ t_update(t) \/ t_compute(t)
           \/ i_check(t) \/ i_read(t) \/ i_remaining(t) \/ i_del(t)
           \/ l_check(t) \/ l_del(t)
    \/ Tick(DEFAULT_TIMEOUT + 1)

ConcSpec == SessionInit /\ [][ConcNext]_vars

----------------------------------------------------------------------------
(* Properties *)

\* A step is a request (rather than a clock tick) iff the clock stands
\* still; resp' is then that request and its response.
IsRequest == ticks' = ticks

\* The cookie names no live session: missing, unknown, or expires_at passed.
Unauthenticated(c) ==
    \/ c = NoCookie
    \/ c \notin DOMAIN sessions
    \/ sessions[c].expires_at < now

\* p is u read backwards.
IsReversal(p, u) ==
    /\ Len(p) = Len(u)
    /\ \A i \in 1..Len(u) : p[i] = u[Len(u) + 1 - i]

\* C1: a track_location or set_destination request whose session cookie is
\* missing, unknown or expired is answered 401 and leaves current_coords
\* and destination_coords as they were, whatever body was submitted.
C1_RejectedRequestLeavesCoords ==
    [][(/\ IsRequest
        /\ resp'.op \in {"track_location", "set_destination"}
        /\ Unauthenticated(resp'.cookie))
       => (/\ resp'.status = 401
           /\ current_coords' = current_coords
           /\ destination_coords' = destination_coords)]_vars

\* C1 witness: a position and a destination are set, and a track_location
\* presenting the expired cookie has been rejected.
C1_Witness ==
    /\ resp.op = "track_location"
    /\ resp.status = 401
    /\ resp.detail = "Session expired"
    /\ current_coords = [lat |-> Num(2000), lng |-> Num(0)]
    /\ destination_coords = [lat |-> Num(0), lng |-> Num(0)]

\* C2: a request on any read path (verify_session behind set_destination,
\* autocomplete_location and track_location, and get_session_info) that
\* presents a stored token whose expires_at is in the past is answered 401,
\* and after it the token is no longer a key of sessions.
C2_ExpiredIsAbsentAndEvicted ==
    [][(/\ IsRequest
        /\ resp'.op \in {"session_info", "set_destination",
                          "autocomplete_location", "track_location"}
        /\ resp'.cookie \in DOMAIN sessions
        /\ sessions[resp'.cookie].expires_at < now)
       => (/\ resp'.status = 401
           /\ resp'.cookie \notin DOMAIN sessions')]_vars

\* C2 witness: verify_session has found jollypolly's session expired and
\* the entry is gone, while the other token's entry is still there.
C2_Witness ==
    /\ resp.op = "set_destination"
    /\ resp.status = 401
    /\ resp.detail = "Session expired"
    /\ resp.cookie \notin DOMAIN sessions
    /\ now > SPECIAL_TIMEOUT
    /\ DOMAIN sessions # {}

\* C3: login's outcome is decided by (username, password) alone: 400 for a
\* username shorter than 5 whatever the password, otherwise 200 and a
\* session for that username iff the password is the username reversed,
\* otherwise 401; the failures create no session.
C3_LoginOutcome ==
    [][(IsRequest /\ resp'.op = "login")
       => LET u == resp'.username
              p == resp'.password
          IN  IF Len(u) < 5
              THEN resp'.status = 400 /\ sessions' = sessions
              ELSE IF IsReversal(p, u)
              THEN /\ resp'.status = 200
                   /\ resp'.cookie \in DOMAIN sessions'
                   /\ sessions'[resp'.cookie].username = u
              ELSE resp'.status = 401 /\ sessions' = sessions]_vars

\* C3 witness: a short username was refused although the password was its
\* reversal, while another user holds a session.
C3_Witness ==
    /\ resp.op = "login"
    /\ resp.status = 400
    /\ IsReversal(resp.password, resp.username)
    /\ DOMAIN sessions # {}

C5_RemainingSeconds ==
    [][(IsRequest /\ resp'.op = "session_info" /\ resp'.cookie \in DOMAIN sessions)
       => LET e == sessions[resp'.cookie].expires_at
          IN  IF now >= e
              THEN resp'.status = 401
              ELSE /\ resp'.status = 200
                   /\ resp'.remaining_seconds = e - now
                   /\ resp'.remaining_seconds > 0
                   /\ (/\ resp.op = "session_info"
                       /\ resp.status = 200
                       /\ resp.cookie = resp'.cookie)
                      => resp'.remaining_seconds < resp.remaining_seconds]_vars

\* C5 witness: a second session_info answer for alice's session, one
\* second short of the first.
C5_Witness ==
    /\ resp.op = "session_info"
    /\ resp.status = 200
    /\ resp.username = alice
    /\ resp.remaining_seconds = 298
    /\ now = 2

\* C6: for every cookie, store and clock value, get_session_info succeeds
\* iff verify_session succeeds, and the two evict under the same condition.
C6_SameValidation ==
    \A c \in Cookies :
        /\ info_status(c) = verify_status(c)
        /\ info_sessions(c) = verify_sessions(c)

\* The cookie names a session verify_session accepts.
Authenticated(c) ==
    /\ c \in DOMAIN sessions
    /\ now <= sessions[c].expires_at

Coords == [lat : BodyLat, lng : BodyLng]
Point(la, ln) == [lat |-> Num(la), lng |-> Num(ln)]
IsPoint(coord) == coord.lat.k = "num" /\ coord.lng.k = "num"

\* C7: compute_distance answers false, without raising, whenever either
\* coordinate has an unset field; so an authenticated track_location made
\* while the destination is unset, or with a missing latitude or longitude,
\* answers status "success" and does not call the alert dispatcher.
C7_UnsetIsNotArrived ==
    /\ [](\A c1, c2 \in Coords :
             (HasNone(c1) \/ HasNone(c2)) => compute_distance(c1, c2) = "false")
    /\ [][(/\ IsRequest
           /\ resp'.op = "track_location"
           /\ Authenticated(resp'.cookie)
           /\ \/ destination_coords.lat = None
              \/ destination_coords.lng = None
              \/ current_coords'.lat = None
              \/ current_coords'.lng = None)
          => (/\ resp'.status = 200
              /\ resp'.body = "success"
              /\ resp'.dispatched = 0
              /\ resp'.call = "none")]_vars

\* C7 witness: before any set_destination, an authenticated track_location
\* carrying a latitude the distance routine would reject was answered
\* "success".
C7_Witness ==
    /\ resp.op = "track_location"
    /\ resp.status = 200
    /\ resp.body = "success"
    /\ destination_coords = [lat |-> None, lng |-> None]
    /\ current_coords = [lat |-> Invalid, lng |-> Num(0)]

\* C8: with both coordinates set to points, compute_distance answers true
\* iff they are at most 2000 m apart: true at 0 m, 1999 m and 2000 m, false
\* at 2001 m; and track_location answers "alert" exactly in that case.
C8_InclusiveRadius ==
    [][/\ compute_distance(Point(0, 0), Point(0, 0)) = "true"
       /\ compute_distance(Point(1999, 0), Point(0, 0)) = "true"
       /\ compute_distance(Point(2000, 0), Point(0, 0)) = "true"
       /\ compute_distance(Point(2001, 0), Point(0, 0)) = "false"
       /\ (/\ IsRequest
           /\ resp'.op = "track_location"
           /\ Authenticated(resp'.cookie)
           /\ IsPoint(current_coords')
           /\ IsPoint(destination_coords))
          => (resp'.body = "alert"
                <=> geodesic(current_coords'.lat.v, current_coords'.lng.v,
                             destination_coords.lat.v, destination_coords.lng.v)
                      <= 2000)]_vars

\* C8 witness: a position exactly 2000 m from the destination raised the
\* alert.
C8_Witness ==
    /\ resp.op = "track_location"
    /\ resp.body = "alert"
    /\ current_coords = Point(2000, 0)
    /\ destination_coords = Point(0, 0)

\* C9: logout always answers success, with a known, an unknown or no
\* cookie; after it the token is not in the store, no other entry has
\* changed, and a logout whose token is already absent (a second logout)
\* leaves the store as it was.
C9_LogoutIdempotent ==
    [][(IsRequest /\ resp'.op = "logout")
       => (/\ resp'.status = 200
           /\ resp'.cookie \notin DOMAIN sessions'
           /\ DOMAIN sessions' = DOMAIN sessions \ {resp'.cookie}
           /\ \A t \in DOMAIN sessions' : sessions'[t] = sessions[t]
           /\ resp'.cookie \notin DOMAIN sessions => sessions' = sessions)]_vars

\* C9 witness: a token has been logged out while the other session stays.
C9_Witness ==
    /\ resp.op = "logout"
    /\ resp.status = 200
    /\ resp.cookie = "t1"
    /\ DOMAIN sessions = {"t2"}

\* C10: every authenticated track_location calls the alert dispatcher once
\* and answers "alert" if compute_distance returns true on the overwritten
\* position, and otherwise does not call it and answers "success".
C10_AlertIffArrived ==
    [][(/\ IsRequest
        /\ resp'.op = "track_location"
        /\ Authenticated(resp'.cookie))
       => IF compute_distance(current_coords', destination_coords) = "true"
          THEN resp'.dispatched = 1 /\ resp'.body = "alert"
          ELSE resp'.dispatched = 0 /\ resp'.body = "success"]_vars

\* C11: the alert dispatcher is triggered at most once for each run of
\* consecutive authenticated updates that stay within 2000 m of the
\* destination: an update that follows an alerting update, and is itself
\* within range, does not trigger it again.
C11_AtMostOncePerArrival ==
    [][(/\ IsRequest
        /\ resp.op = "track_location"
        /\ resp.dispatched = 1
        /\ resp'.op = "track_location"
        /\ Authenticated(resp'.cookie)
        /\ compute_distance(current_coords', destination_coords) = "true")
       => resp'.dispatched = 0]_vars

\* C12: every track_location that passes authentication is answered with
\* a success response, status "success" or "alert", whatever latitude and
\* longitude the body carries.
C12_AuthenticatedTrackSucceeds ==
    [][(/\ IsRequest
        /\ resp'.op = "track_location"
        /\ Authenticated(resp'.cookie))
       => (resp'.status = 200 /\ resp'.body \in {"success", "alert"})]_vars

\* The coordinate a track_location request submitted.
Submitted(r) == [lat |-> r.latitude, lng |-> r.longitude]

\* C13: when an authenticated track_location reports a position within
\* range, the answer is the "alert" success response and the submitted
\* position is kept, whether the call was placed, failed, or no call client
\* is configured; the dispatcher is invoked once, with no second attempt.
C13_DispatchFailureIsolated ==
    [][(/\ IsRequest
        /\ resp'.op = "track_location"
        /\ Authenticated(resp'.cookie)
        /\ IsPoint(Submitted(resp'))
        /\ IsPoint(destination_coords)
        /\ geodesic(resp'.latitude.v, resp'.longitude.v,
                    destination_coords.lat.v, destination_coords.lng.v) <= 2000)
       => (/\ resp'.status = 200
           /\ resp'.body = "alert"
           /\ resp'.dispatched = 1
           /\ ~twilio_client => resp'.call = "no_client"
           /\ resp'.call \in {"placed", "failed", "no_client"}
           /\ current_coords' = Submitted(resp'))]_vars

\* C13 witness: the external call failed and the tracking request was
\* still answered "alert", with the position stored.
C13_Witness ==
    /\ resp.op = "track_location"
    /\ resp.status = 200
    /\ resp.body = "alert"
    /\ resp.call = "failed"
    /\ current_coords = Point(1999, 0)

\* C14: an authenticated set_destination whose lookup fails, or answers
\* without lat or lng, ends in 500 and leaves destination_coords as it was;
\* destination_coords changes only in a set_destination answered 200, and
\* then to the complete lat/lng pair of the lookup.
C14_LookupFailureKeepsDestination ==
    [][/\ (/\ IsRequest
           /\ resp'.op = "set_destination"
           /\ Authenticated(resp'.cookie)
           /\ \/ resp'.lookup.k = "failure"
              \/ resp'.lookup.has # {"lat", "lng"})
          => (resp'.status = 500 /\ destination_coords' = destination_coords)
       /\ destination_coords' # destination_coords
          => (/\ resp'.op = "set_destination"
              /\ resp'.status = 200
              /\ resp'.lookup.has = {"lat", "lng"}
              /\ destination_coords' = Point(resp'.lookup.lat, resp'.lookup.lng))]_vars

\* C14 witness: a lookup that lacked "lng" was answered 500 while an
\* earlier destination is still in place.
C14_Witness ==
    /\ resp.op = "set_destination"
    /\ resp.status = 500
    /\ resp.lookup = Location({"lat"}, 0, 0)
    /\ destination_coords = Point(2001, 0)

\* C15: login never stores a session under a token that is already a key
\* of the session store.
C15_TokenUnique ==
    [][(IsRequest /\ resp'.op = "login" /\ resp'.status = 200)
       => resp'.cookie \notin DOMAIN sessions]_vars

\* C16: when the request before was a successful set_destination to D made
\* with the token a login issued, a track_location with that token, before
\* the session expires, reporting exactly D is answered "alert".
C16_ArrivalScenario ==
    [][(/\ IsRequest
        /\ resp.op = "set_destination"
        /\ resp.status = 200
        /\ resp'.op = "track_location"
        /\ resp'.cookie = resp.cookie
        /\ resp'.cookie \in DOMAIN sessions
        /\ now < sessions[resp'.cookie].expires_at
        /\ Submitted(resp') = Point(resp.lookup.lat, resp.lookup.lng))
       => (resp'.status = 200 /\ resp'.body = "alert" /\ resp'.dispatched = 1)]_vars

\* C16 witness: login, set_destination to (2001, 0), then track_location
\* at (2001, 0), answered "alert".
C16_Witness ==
    /\ resp.op = "track_location"
    /\ resp.body = "alert"
    /\ resp.cookie = "t1"
    /\ current_coords = Point(2001, 0)
    /\ destination_coords = Point(2001, 0)

\* C19: once a request presenting token T has been rejected with "Session
\* expired" (so T had been issued and its expiry has passed), T is not a
\* live session after the following step either: it is absent from the
\* store or its expires_at has passed.
C19_NeverValidAgain ==
    [][(/\ resp.op \in {"set_destination", "autocomplete_location", "track_location"}
        /\ resp.status = 401
        /\ resp.detail = "Session expired")
       => Unauthenticated(resp.cookie)']_vars

\* C20: a request leaves the entry of every token other than the one it
\* presents (or, for login, the one it issues) exactly as it was, and the
\* passing of time removes nothing; an expired entry stays until presented.
C20_OnlyOwnEntryRemoved ==
    [][\A B \in DOMAIN sessions :
          /\ (IsRequest /\ B # resp'.cookie)
                => (B \in DOMAIN sessions' /\ sessions'[B] = sessions[B])
          /\ ~IsRequest => (B \in DOMAIN sessions' /\ sessions'[B] = sessions[B])]_vars

\* C20 witness: "t2" has just been accepted while the expired entry of
\* "t1", which nobody presented, is still in the store.
C20_Witness ==
    /\ resp.op \in {"session_info", "set_destination", "autocomplete_location",
                    "track_location"}
    /\ resp.cookie = "t2"
    /\ resp.status = 200
    /\ "t1" \in DOMAIN sessions
    /\ sessions["t1"].expires_at < now

\* C17: under ConcSpec's interleavings, no request presenting the token ends
\* in an unhandled failure: each finished request was answered 200 or 401.
C17_NoUnhandledFailure ==
    \A t \in Threads :
        threads[t].pc = "done" => threads[t].status \in {200, 401}

\* C18: under ConcSpec's interleavings, with the destination fixed while the
\* workers run, a finished track_location answers "alert" exactly when the
\* position that same request submitted is within 2000 m of the destination.
C18_OwnCoordinateDecides ==
    \A t \in Threads :
        (/\ threads[t].pc = "done"
         /\ threads[t].op = "track_location"
         /\ threads[t].status = 200
         /\ IsPoint(destination_coords))
        => /\ threads[t].body \in {"alert", "success"}
           /\ threads[t].body = "alert"
                <=> geodesic(threads[t].latitude.v, threads[t].longitude.v,
                             destination_coords.lat.v, destination_coords.lng.v) <= 2000
           /\ threads[t].dispatched = 1 <=> threads[t].body = "alert"

====
